---- MODULE Spec2Model ----
(***************************************************************************)
(* Adaptive FEC configuration controller (candidate scoring, constraint   *)
(* filter, selector with hysteresis and dwell) and the FEC benchmark       *)
(* (XOR / Reed-Solomon shard framing, parity count).                       *)
(*                                                                         *)
(* Real quantities are exact rationals [n |-> numerator, d |-> denominator]*)
(* with d > 0, kept in lowest terms.  The loss and overhead penalties are  *)
(* irrational powers (beta = 1.4, alpha = 1.5); their order and their      *)
(* zero/non-zero status are computed exactly, the weighted score itself is *)
(* an input of the decision step drawn from ScoreVals.                     *)
(***************************************************************************)
EXTENDS Integers, Sequences, FiniteSets, TLC

VARIABLES
    grid,                  \* candidate grid (configuration, loaded once)
    epsTie,                \* tie-break epsilon, in score units (configuration)
    active,                \* ControllerState.active
    last_switch_time,      \* ControllerState.last_switch_time (decision-step clock)
    segments_since_switch, \* ControllerState.segments_since_switch
    now,                   \* number of decision steps completed
    signals,               \* RuntimeSignals snapshot of the last decision step
    breakdown,             \* ScoreBreakdown per candidate of the last decision step
    best,                  \* index of `best` in the last step, 0 when none feasible
    outcome,               \* "init", "switch", "hold" or "NoFeasibleCandidate"
    pc,                    \* decision step position: "idle", "scored", "decided"
    prevActive,            \* history: active before the last decision step
    prevSegments,          \* history: segments_since_switch before the last step
    p_smooth,              \* Signal Estimator: smoothed loss, in units of 1/PScale
    estResult,             \* Signal Estimator: result of the last update
    validLosses,           \* history: raw losses of the accepted updates, in order
    nUpdates,              \* history: number of update calls made
    benchIn,               \* bench: the grid point (N, S, R percent)
    benchOut,              \* bench: computed payloadB and parity
    payload,               \* codec: payload bytes
    symbolSize,            \* codec: symbol size S
    parity,                \* codec: parity symbol count P
    shards,                \* codec: shards returned by the last encode
    codecOp,               \* codec: last operation
    original,              \* DecodeXOR: data shards and their XOR parity, as sent
    received,              \* DecodeXOR: the dataShards argument before the call
    lost_indices,          \* DecodeXOR: the lostIndices argument
    decodeErr              \* DecodeXOR: the error returned

vars == <<grid, epsTie, active, last_switch_time, segments_since_switch, now,
          signals, breakdown, best, outcome, pc, prevActive, prevSegments,
          p_smooth, estResult, validLosses, nUpdates,
          benchIn, benchOut, payload, symbolSize, parity, shards, codecOp,
          original, received, lost_indices, decodeErr>>

ctrlVars == <<grid, epsTie, active, last_switch_time, segments_since_switch, now,
              signals, breakdown, best, outcome, pc, prevActive, prevSegments>>
estVars == <<p_smooth, estResult, validLosses, nUpdates>>
benchVars == <<benchIn, benchOut>>
decodeVars == <<original, received, lost_indices, decodeErr>>
codecVars == <<payload, symbolSize, parity, shards, codecOp, decodeVars>>

----------------------------------------------------------------------------
(* Exact rational arithmetic *)

Abs(x) == IF x < 0 THEN -x ELSE x

RECURSIVE Gcd(_, _)
Gcd(a, b) == IF b = 0 THEN a ELSE Gcd(b, a % b)

Rat(n, d) ==
    LET g == Gcd(Abs(n), Abs(d))
        s == IF d < 0 THEN -1 ELSE 1
    IN  [n |-> (s * n) \div g, d |-> (s * d) \div g]

RInt(k) == [n |-> k, d |-> 1]
RAdd(a, b) == Rat(a.n * b.d + b.n * a.d, a.d * b.d)
RSub(a, b) == Rat(a.n * b.d - b.n * a.d, a.d * b.d)
RMul(a, b) == Rat(a.n * b.n, a.d * b.d)
RDiv(a, b) == Rat(a.n * b.d, a.d * b.n)
RLt(a, b) == a.n * b.d < b.n * a.d
RLe(a, b) == a.n * b.d <= b.n * a.d
RMin(a, b) == IF RLe(a, b) THEN a ELSE b
RMax(a, b) == IF RLe(a, b) THEN b ELSE a

CeilDiv(a, b) == (a + b - 1) \div b

----------------------------------------------------------------------------
(* G) Constants / tunable parameters (design notes, table of typical values) *)

B_sat == RInt(6)
B_crit == RInt(3)
h_cap == RInt(2)
z_min == RInt(1)
alpha_B == Rat(1, 2)
alpha_h == Rat(1, 2)
o_cap == Rat(7, 20)
eta == Rat(1, 2)
\* hysteresis margin delta, configurable in [0.05, 0.15]
delta == Rat(1, 10)
\* the notes' epsilon in max(R_play, eps) and max(G, eps)
Epsilon == Rat(1, 1000)
\* floor of the variance T p (1-p) under the square root of z
EpsVar == Rat(1, 10000)
\* block time above which a candidate is rejected, as a multiple of B_eff
BlkRejectFactor == Rat(3, 2)
\* buffer below which a negative z rejects the candidate
LowBuffer == RInt(1)

----------------------------------------------------------------------------
(* A) Derived per-candidate quantities.  A candidate is [N, S, R], R a    *)
(* rational redundancy ratio.                                             *)

RCeil(r) == IF r.n >= 0 THEN CeilDiv(r.n, r.d) ELSE -((-r.n) \div r.d)

\* a repair count that truncates N R instead of rounding it up
DerivedPFloor(N, R) == RMul(RInt(N), R).n \div RMul(RInt(N), R).d

DerivedP(N, R) == RCeil(RMul(RInt(N), R))
DerivedT(N, R) == N + DerivedP(N, R)
DerivedO(N, R) == Rat(DerivedP(N, R), DerivedT(N, R))
DerivedBblk(N, S, R) == DerivedT(N, R) * S

(* B) Runtime signals.  A snapshot is [p, B, G, R_play]: p and B rational, *)
(* G and R_play in bits/s.                                                 *)

Headroom(s) == RDiv(RInt(s.G - s.R_play), RMax(RInt(s.R_play), Epsilon))
B_eff(s) == RMin(s.B, B_sat)

(* C) Loss robustness.  z = ZNum / sqrt(ZVar); only its sign and its order *)
(* against other values of the same shape are needed, and both are exact.  *)

ZNum(c, s) ==
    RSub(RAdd(RInt(DerivedP(c.N, c.R)), Rat(1, 2)),
         RMul(RInt(DerivedT(c.N, c.R)), s.p))

ZVarRaw(c, s) ==
    RMul(RInt(DerivedT(c.N, c.R)), RMul(s.p, RSub(RInt(1), s.p)))

ZVar(c, s) == RMax(ZVarRaw(c, s), EpsVar)

ZTgt(s) ==
    RSub(RAdd(z_min, RMul(alpha_B, RMax(RInt(0), RSub(B_crit, B_eff(s))))),
         RMul(alpha_h, RMin(Headroom(s), h_cap)))

\* a1/sqrt(v1) >= a2/sqrt(v2), for v1, v2 > 0
SqrtQuotGe(a1, v1, a2, v2) ==
    LET l == RMul(RMul(a1, a1), v2)
        r == RMul(RMul(a2, a2), v1)
    IN  IF a1.n >= 0
        THEN IF a2.n >= 0 THEN RLe(r, l) ELSE TRUE
        ELSE IF a2.n >= 0 THEN FALSE ELSE RLe(l, r)

\* pen_loss = max(0, z_tgt - z)^beta is 0 exactly when z >= z_tgt
PenLossZero(c, s) == SqrtQuotGe(ZNum(c, s), ZVar(c, s), ZTgt(s), RInt(1))

\* pen_loss(c1) <= pen_loss(c2): x -> max(0, z_tgt - x)^beta is non-increasing
PenLossLe(c1, c2, s) ==
    \/ PenLossZero(c1, s)
    \/ SqrtQuotGe(ZNum(c1, s), ZVar(c1, s), ZNum(c2, s), ZVar(c2, s))

(* E) Blockization / latency *)

TBlk(c, s) ==
    RDiv(RInt(8 * DerivedT(c.N, c.R) * c.S), RMax(RInt(s.G), Epsilon))

PenBlkNoClamp(t, b) == RMax(RInt(0), RSub(RDiv(t, RMul(eta, b)), RInt(1)))

PenBlkFormula(t, b) ==
    RMin(RInt(1), RMax(RInt(0), RSub(RDiv(t, RMul(eta, b)), RInt(1))))

PenBlk(t, b) == IF b.n = 0 THEN RInt(1) ELSE PenBlkFormula(t, b)

(* H) Constraints *)

FeasibleNoCap(o, t, zneg, b) ==
    ~ (\/ RLt(RMul(BlkRejectFactor, b), t)
       \/ (zneg /\ RLt(b, LowBuffer)))

Feasible(o, t, zneg, b) ==
    ~ (\/ RLt(o_cap, o)
       \/ RLt(RMul(BlkRejectFactor, b), t)
       \/ (zneg /\ RLt(b, LowBuffer)))

\* the ScoreBreakdown of candidate c under snapshot s, sc the weighted score
Score(c, s, sc) ==
    LET o == DerivedO(c.N, c.R)
        t == TBlk(c, s)
        zneg == ZNum(c, s).n < 0
    IN  [o |-> o, t_blk |-> t, zneg |-> zneg,
         pen_blk |-> PenBlk(t, B_eff(s)),
         score |-> sc,
         feasible |-> Feasible(o, t, zneg, B_eff(s))]

----------------------------------------------------------------------------
(* Selector *)

Cands == DOMAIN grid

\* a selector that reads the scores of rejected candidates too
FeasibleSetAll(bd) == DOMAIN bd

FeasibleSet(bd) == {i \in DOMAIN bd : bd[i].feasible}

MinScore(bd) ==
    CHOOSE m \in {bd[i].score : i \in FeasibleSet(bd)} :
        \A i \in FeasibleSet(bd) : m <= bd[i].score

\* feasible candidates within eps of the minimum feasible score
Tied(bd, eps) ==
    LET m == MinScore(bd)
    IN  {i \in FeasibleSet(bd) : bd[i].score - m <= eps}

\* a tie-break that takes the first tied candidate in enumeration order
PrefersFirst(g, bd, i, j) == i < j

\* tie-break order lower o -> larger S -> larger N, then enumeration order
PrefersOSN(g, bd, i, j) ==
    \/ RLt(bd[i].o, bd[j].o)
    \/ /\ bd[i].o = bd[j].o
       /\ \/ g[i].S > g[j].S
          \/ /\ g[i].S = g[j].S
             /\ \/ g[i].N > g[j].N
                \/ (g[i].N = g[j].N /\ i < j)

\* i is strictly preferred to j; below B_crit the smaller pen_loss comes first
Prefers(g, bd, s, i, j) ==
    IF RLt(B_eff(s), B_crit)
    THEN \/ ~ PenLossLe(g[j], g[i], s)
         \/ (PenLossLe(g[i], g[j], s) /\ PenLossLe(g[j], g[i], s)
             /\ PrefersOSN(g, bd, i, j))
    ELSE PrefersOSN(g, bd, i, j)

SelectBest(g, bd, s, eps) ==
    LET tied == Tied(bd, eps)
    IN  CHOOSE i \in tied : \A j \in tied \ {i} : Prefers(g, bd, s, i, j)

ScoreBelowMargin(sb, sa) ==
    RLt(RInt(sb), RMul(RInt(sa), RSub(RInt(1), delta)))

\* gates with one of the two conditions missing
GateNoDwell(sb, sa, seg) == ScoreBelowMargin(sb, sa)
GateNotStrict(sb, sa, seg) ==
    /\ RLe(RInt(sb), RMul(RInt(sa), RSub(RInt(1), delta)))
    /\ seg >= 1

\* switch gate: hysteresis and minimum dwell
Gate(sb, sa, seg) == ScoreBelowMargin(sb, sa) /\ seg >= 1

ActiveIdx(g, a) == CHOOSE i \in DOMAIN g : g[i] = a

----------------------------------------------------------------------------
(* Bounds and input sets *)

MaxSteps == 4

Cand(n, sz, r) == [N |-> n, S |-> sz, R |-> r]

\* same o, differing in S and in N
GridSameO == << Cand(20, 64, Rat(3, 10)), Cand(10, 512, Rat(3, 10)),
                Cand(20, 512, Rat(3, 10)) >>
\* differing in o, the second above o_cap
GridByO == << Cand(20, 512, Rat(3, 10)), Cand(20, 512, Rat(3, 5)),
              Cand(20, 512, Rat(1, 10)) >>
Grids == {GridSameO, GridByO}

EpsTies == {0, 1}

\* weighted scores in hundredths
ScoreVals == {0, 89, 90, 100}

Snap(p, b, g, r) == [p |-> p, B |-> b, G |-> g, R_play |-> r]

Snapshots ==
    { Snap(Rat(1, 20), RInt(2), 2000000, 1000000),
      Snap(RInt(0), RInt(8), 2000000, 1000000),
      Snap(Rat(1, 5), RInt(2), 2000000, 1000000),
      Snap(Rat(1, 4), Rat(1, 2), 2000000, 1000000),
      Snap(Rat(1, 20), RInt(0), 2000000, 1000000),
      Snap(Rat(1, 20), RInt(2), 100000, 1000000),
      Snap(Rat(1, 20), Rat(1, 2), 100000, 1000000) }

NoSignals == Snap(RInt(0), RInt(0), 0, 0)

----------------------------------------------------------------------------
(* Controller Loop: one decision step *)

InitCtrl(g, e, a) ==
    /\ grid = g
    /\ epsTie = e
    /\ active = a
    /\ last_switch_time = 0
    /\ segments_since_switch = 0
    /\ now = 0
    /\ signals = NoSignals
    /\ breakdown = << >>
    /\ best = 0
    /\ outcome = "init"
    /\ pc = "idle"
    /\ prevActive = a
    /\ prevSegments = 0

\* a hold that forgets to count the segment
HoldNoCount(seg) == seg

Hold(seg) == seg + 1

\* a switch that adopts the first candidate of the grid instead of best
SwitchFirst(g, b) == g[1]

SwitchTo(g, b) == g[b]

\* the breakdowns without the score, per grid, snapshot and candidate: they
\* depend on nothing else, so they are computed once
ScoreTable ==
    [g \in Grids |-> [s \in Snapshots |-> [i \in DOMAIN g |-> Score(g[i], s, 0)]]]

\* Scorer and Constraint Filter: a fresh ScoreBreakdown per candidate for the
\* snapshot s; sc[i] is the weighted score of candidate i.  ControllerState is
\* not touched.
Evaluate(s, sc) ==
    /\ pc = "idle"
    /\ now < MaxSteps
    /\ signals' = s
    /\ breakdown' = [i \in Cands |-> [ScoreTable[grid][s][i] EXCEPT !.score = sc[i]]]
    /\ pc' = "scored"
    /\ UNCHANGED <<grid, epsTie, active, last_switch_time, segments_since_switch,
                   now, best, outcome, prevActive, prevSegments>>

\* Selector: best, switch gate, ControllerState update
Select ==
    /\ pc = "scored"
    /\ pc' = "decided"
    /\ now' = now + 1
    /\ prevActive' = active
    /\ prevSegments' = segments_since_switch
    /\ UNCHANGED <<grid, epsTie, signals, breakdown>>
    /\ best' = IF FeasibleSet(breakdown) = {}
               THEN 0
               ELSE SelectBest(grid, breakdown, signals, epsTie)
    /\ outcome' =
         IF best' = 0 THEN "NoFeasibleCandidate"
         ELSE IF Gate(breakdown[best'].score,
                      breakdown[ActiveIdx(grid, active)].score,
                      segments_since_switch)
              THEN "switch"
              ELSE "hold"
    /\ IF outcome' = "switch"
       THEN /\ active' = SwitchTo(grid, best')
            /\ last_switch_time' = now'
            /\ segments_since_switch' = 0
       ELSE /\ active' = active
            /\ segments_since_switch' = Hold(segments_since_switch)
            /\ UNCHANGED last_switch_time

\* end of the decision step: the breakdowns are not kept beyond one decision
EndStep ==
    /\ pc = "decided"
    /\ pc' = "idle"
    /\ signals' = NoSignals
    /\ breakdown' = << >>
    /\ best' = 0
    /\ prevActive' = active
    /\ prevSegments' = segments_since_switch
    /\ UNCHANGED <<grid, epsTie, active, last_switch_time, segments_since_switch,
                   now, outcome>>

----------------------------------------------------------------------------
(* Idle initial values of the parts a specification does not exercise *)

InitEstIdle ==
    /\ p_smooth = [n |-> 0, d |-> 1]
    /\ estResult = [status |-> "none", G |-> 0, R_play |-> 0]
    /\ validLosses = << >>
    /\ nUpdates = 0

InitBenchIdle ==
    /\ benchIn = << >>
    /\ benchOut = << >>

InitDecodeIdle ==
    /\ original = << >>
    /\ received = << >>
    /\ lost_indices = << >>
    /\ decodeErr = "none"

InitCodecIdle ==
    /\ payload = << >>
    /\ symbolSize = 1
    /\ parity = 0
    /\ shards = << >>
    /\ codecOp = "none"
    /\ InitDecodeIdle

Init ==
    /\ \E g \in Grids, e \in EpsTies : \E i \in DOMAIN g : InitCtrl(g, e, g[i])
    /\ InitEstIdle
    /\ InitBenchIdle
    /\ InitCodecIdle

EvaluateStep ==
    /\ \E s \in Snapshots, sc \in [Cands -> ScoreVals] : Evaluate(s, sc)
    /\ UNCHANGED <<estVars, benchVars, codecVars>>

SelectStep ==
    /\ Select
    /\ UNCHANGED <<estVars, benchVars, codecVars>>

EndStepStep ==
    /\ EndStep
    /\ UNCHANGED <<estVars, benchVars, codecVars>>

Next == EvaluateStep \/ SelectStep \/ EndStepStep

Spec == Init /\ [][Next]_vars

----------------------------------------------------------------------------
(* Signal Estimator: update(rawLoss, rawBuffer, rawGoodput, rawPlaybackRate) *)

MaxUpdates == 4

\* smoothing factor of the loss sample
gamma == Rat(1, 4)

RawLosses == {RInt(0), Rat(1, 10), RInt(1)}
RawBuffers == {RInt(2)}
RawGoodputs == {-1, 0, 2000000}
RawPlaybackRates == {-1, 0, 1000000}

\* a domain check that lets every sample through
AcceptAnySample(rawGoodput, rawPlaybackRate) == FALSE

InvalidSample(rawGoodput, rawPlaybackRate) ==
    rawPlaybackRate <= 0 \/ rawGoodput < 0

Smooth(old, rawLoss) ==
    RAdd(RMul(gamma, rawLoss), RMul(RSub(RInt(1), gamma), old))

Update(rawLoss, rawBuffer, rawGoodput, rawPlaybackRate) ==
    /\ nUpdates < MaxUpdates
    /\ nUpdates' = nUpdates + 1
    /\ IF InvalidSample(rawGoodput, rawPlaybackRate)
       THEN /\ estResult' = [status |-> "InvalidSample",
                             G |-> rawGoodput, R_play |-> rawPlaybackRate]
            /\ UNCHANGED <<p_smooth, validLosses>>
       ELSE /\ p_smooth' = Smooth(p_smooth, rawLoss)
            /\ validLosses' = Append(validLosses, rawLoss)
            /\ estResult' = [status |-> "ok",
                             G |-> rawGoodput, R_play |-> rawPlaybackRate,
                             signals |-> Snap(p_smooth', rawBuffer, rawGoodput,
                                              rawPlaybackRate)]

InitEst ==
    /\ p_smooth = RInt(0)
    /\ estResult = [status |-> "none", G |-> 0, R_play |-> 0]
    /\ validLosses = << >>
    /\ nUpdates = 0

InitCtrlIdle == InitCtrl(GridByO, 0, GridByO[1])

UpdateStep ==
    /\ \E l \in RawLosses, b \in RawBuffers, g \in RawGoodputs,
          r \in RawPlaybackRates : Update(l, b, g, r)
    /\ UNCHANGED <<ctrlVars, benchVars, codecVars>>

InitEstimator == InitCtrlIdle /\ InitEst /\ InitBenchIdle /\ InitCodecIdle

NextEstimator == UpdateStep

SpecEstimator == InitEstimator /\ [][NextEstimator]_vars

----------------------------------------------------------------------------
(* Benchmark: bench(algo, encode, decode, N, S, R, iters), R in percent, and *)
(* the derived quantities of the same point taken as a candidate            *)

PctDen == 100

Ns == {10, 20, 30, 40, 50}
Ss == {64, 92, 120, 250, 512}
Rs == {10, 20, 30, 40, 50}

\* candidates outside the benchmark grid: (N, S, R in percent)
ExtraPoints ==
    {<<n, sz, r>> : n \in {1, 3, 7}, sz \in {1, 512}, r \in {0, 1, 33, 100, 250}}

MainGrid == {<<n, sz, r>> : n \in Ns, sz \in Ss, r \in Rs}

\* a parity count that takes R as a fraction although it is given in percent
BenchParityNoPercent(N, R) == N * R

\* math.Ceil(float64(N) * R / 100.0): N * R is an integer below 2^53, hence
\* exact, and the correctly rounded quotient of an integer by 100 is an integer
\* only when the exact quotient is, so the ceiling is that of the exact quotient
BenchParity(N, R) == CeilDiv(N * R, PctDen)

Bench ==
    /\ benchIn \in MainGrid
    /\ benchOut = << >>
    /\ benchOut' = [kind |-> "bench",
                    PayloadB |-> benchIn[1] * benchIn[2],
                    Parity |-> BenchParity(benchIn[1], benchIn[3])]
    /\ UNCHANGED benchIn

Derive ==
    /\ benchOut = << >>
    /\ LET N == benchIn[1]
           S == benchIn[2]
           R == Rat(benchIn[3], PctDen)
       IN  benchOut' = [kind |-> "derived",
                        P |-> DerivedP(N, R),
                        T |-> DerivedT(N, R),
                        o |-> DerivedO(N, R),
                        B_blk |-> DerivedBblk(N, S, R)]
    /\ UNCHANGED benchIn

InitBench ==
    /\ benchIn \in MainGrid \cup ExtraPoints
    /\ benchOut = << >>

BenchStep == Bench /\ UNCHANGED <<ctrlVars, estVars, codecVars>>
DeriveStep == Derive /\ UNCHANGED <<ctrlVars, estVars, codecVars>>

InitBenchmark == InitCtrlIdle /\ InitEstIdle /\ InitBench /\ InitCodecIdle

NextBenchmark == BenchStep \/ DeriveStep

SpecBench == InitBenchmark /\ [][NextBenchmark]_vars

----------------------------------------------------------------------------
(* Codecs.  Shards and payloads are sequences of bytes; Go's index i is the *)
(* sequence index i + 1.                                                    *)

MaxN == 2
MaxSym == 2
MaxParity == 2

ByteVals == {0, 90, 255}

RECURSIVE Xor(_, _)
Xor(a, b) ==
    IF a = 0 THEN b
    ELSE IF b = 0 THEN a
    ELSE (((a % 2) + (b % 2)) % 2) + 2 * Xor(a \div 2, b \div 2)

RECURSIVE XorColumn(_, _, _, _)
\* buf[j] after the loop over the symbols i = 0 .. k-1
XorColumn(pl, S, k, j) ==
    IF k = 0 THEN 0
    ELSE LET start == (k - 1) * S
             end == IF start + S > Len(pl) THEN Len(pl) ELSE start + S
         IN  IF j < end - start
             THEN Xor(XorColumn(pl, S, k - 1, j), pl[start + j + 1])
             ELSE XorColumn(pl, S, k - 1, j)

EncodeXOR(pl, S, P) ==
    LET k == CeilDiv(Len(pl), S)
        buf == [j \in 1..S |-> XorColumn(pl, S, k, j - 1)]
    IN  [p \in 1..P |-> buf]

RECURSIVE RecoverByteAll(_, _, _, _)
\* a recovery loop that does not skip the lost shard
RecoverByteAll(sh, k, lost, j) ==
    IF k = 0 THEN 0
    ELSE Xor(RecoverByteAll(sh, k - 1, lost, j), sh[k][j])

RECURSIVE RecoverByte(_, _, _, _)
\* recoverBuf[j] after the loop over the shards i = 0 .. k-1, skipping lost
RecoverByte(sh, k, lost, j) ==
    IF k = 0 THEN 0
    ELSE IF k - 1 = lost THEN RecoverByte(sh, k - 1, lost, j)
    ELSE Xor(RecoverByte(sh, k - 1, lost, j), sh[k][j])

DecodeXOR(sh, lostIndices) ==
    IF Len(lostIndices) = 0 THEN sh
    ELSE LET lost == lostIndices[1]
             size == Len(sh[1])
         IN  [sh EXCEPT ![lost + 1] =
                 [j \in 1..Len(sh[lost + 1]) |->
                     IF j <= size THEN RecoverByte(sh, Len(sh), lost, j)
                     ELSE sh[lost + 1][j]]]

\* DecodeXOR has one return value, the error: nil on both paths
DecodeXORError(sh, lostIndices) == "nil"

\* a byte of a parity shard as the Reed-Solomon library leaves it: the
\* library is outside the repository and its arithmetic is not modelled
LibraryByte == "rs"

EncodeRS(pl, S, P) ==
    LET dataShards == CeilDiv(Len(pl), S)
    IN  [i \in 1..(dataShards + P) |->
            IF i <= dataShards
            THEN [j \in 1..S |->
                    IF (i - 1) * S + j <= Len(pl) THEN pl[(i - 1) * S + j] ELSE 0]
            ELSE [j \in 1..S |-> LibraryByte]]

InitCodec ==
    /\ \E n \in 1..MaxN, sz \in 1..MaxSym :
          /\ symbolSize = sz
          /\ payload \in [1..(n * sz) -> ByteVals]
    /\ parity \in 1..MaxParity
    /\ shards = << >>
    /\ codecOp = "none"
    /\ InitDecodeIdle

\* bench calls encode(payload, S, parity)
EncodeXORCall ==
    /\ codecOp = "none"
    /\ shards' = EncodeXOR(payload, symbolSize, parity)
    /\ codecOp' = "EncodeXOR"
    /\ UNCHANGED <<payload, symbolSize, parity, decodeVars>>

EncodeRSCall ==
    /\ codecOp = "none"
    /\ shards' = EncodeRS(payload, symbolSize, parity)
    /\ codecOp' = "EncodeRS"
    /\ UNCHANGED <<payload, symbolSize, parity, decodeVars>>

\* main's xorDecode: DecodeXOR(sh, []int{0}) on what the encoder returned
XorDecodeCall ==
    /\ codecOp = "EncodeXOR"
    /\ shards' = DecodeXOR(shards, <<0>>)
    /\ codecOp' = "DecodeXOR"
    /\ UNCHANGED <<payload, symbolSize, parity, decodeVars>>

EncodeXORStep == EncodeXORCall /\ UNCHANGED <<ctrlVars, estVars, benchVars>>
EncodeRSStep == EncodeRSCall /\ UNCHANGED <<ctrlVars, estVars, benchVars>>
XorDecodeStep == XorDecodeCall /\ UNCHANGED <<ctrlVars, estVars, benchVars>>

InitCodecs == InitCtrlIdle /\ InitEstIdle /\ InitBenchIdle /\ InitCodec

NextCodecs == EncodeXORStep \/ EncodeRSStep \/ XorDecodeStep

SpecCodec == InitCodecs /\ [][NextCodecs]_vars

----------------------------------------------------------------------------
(* DecodeXOR on a received shard list: the data symbols of the payload     *)
(* followed by their XOR parity, one shard of which arrives with other     *)
(* content.                                                                *)

DecodeBytes == {90, 255}
JunkBytes == {0, 90}

\* the data symbols payload[start:end] EncodeXOR walks over
SplitSymbols(pl, S) ==
    [i \in 1..CeilDiv(Len(pl), S) |-> [j \in 1..S |-> pl[(i - 1) * S + j]]]

\* what a shard slot may hold on arrival: S arbitrary bytes, or nothing
JunkShards(S) == [1..S -> JunkBytes] \cup {<< >>}

\* lostIndices arguments for a list of k shards: none, one or two indices
LostLists(k) ==
    {<< >>} \cup {<<i>> : i \in 0..(k - 1)}
             \cup {<<i, j>> : i \in 0..(k - 1), j \in 0..(k - 1)}

InitDecode ==
    /\ \E n \in 1..MaxN, sz \in 1..MaxSym :
          /\ symbolSize = sz
          /\ payload \in [1..(n * sz) -> DecodeBytes]
    /\ parity = 1
    /\ shards = << >>
    /\ codecOp = "none"
    /\ InitDecodeIdle

\* DecodeXOR(dataShards, lostIndices) on the list with slot g replaced; a
\* slot shorter than the others is read only if it is not lostIndices[0]
DecodeXORCall ==
    /\ codecOp = "none"
    /\ LET list == Append(SplitSymbols(payload, symbolSize),
                          EncodeXOR(payload, symbolSize, parity)[1])
       IN  \E g \in 1..Len(list), junk \in JunkShards(symbolSize),
              lost \in LostLists(Len(list)) :
              /\ Len(junk) < symbolSize => (lost # << >> /\ lost[1] = g - 1)
              /\ original' = list
              /\ received' = [list EXCEPT ![g] = junk]
              /\ lost_indices' = lost
              /\ shards' = DecodeXOR(received', lost)
              /\ decodeErr' = DecodeXORError(received', lost)
              /\ codecOp' = "DecodeXOR"
    /\ UNCHANGED <<payload, symbolSize, parity>>

DecodeXORStep == DecodeXORCall /\ UNCHANGED <<ctrlVars, estVars, benchVars>>

InitDecoder == InitCtrlIdle /\ InitEstIdle /\ InitBenchIdle /\ InitDecode

NextDecode == DecodeXORStep

SpecDecode == InitDecoder /\ [][NextDecode]_vars

----------------------------------------------------------------------------
(* Properties of the controller, stated on the state a decision leaves     *)
(* (pc = "decided"): breakdown and signals are those of the step,          *)
(* prevActive and prevSegments the ControllerState the step started from.  *)

PrevIdx == ActiveIdx(grid, prevActive)
BEff == IF signals.B.n * 1 <= 6 * signals.B.d THEN signals.B ELSE [n |-> 6, d |-> 1]
Switched == outcome = "switch"

\* best.score < active.score * (1 - 1/10), in integers
BeatsMargin == best # 0 /\ breakdown[best].score * 10 < breakdown[PrevIdx].score * 9

\* C1: a decision step switches to best exactly when best.score is strictly
\* below active.score * (1 - delta) and segments_since_switch >= 1; on the
\* boundary (equality) it holds.
C1_HysteresisGate ==
    pc = "decided" =>
        /\ Switched => (BeatsMargin /\ prevSegments >= 1 /\ active = grid[best])
        /\ (BeatsMargin /\ prevSegments >= 1) => Switched
        /\ (best # 0 /\ breakdown[best].score * 10 = breakdown[PrevIdx].score * 9)
              => (~ Switched /\ active = prevActive)

C1_Witness ==
    /\ pc = "decided"
    /\ Switched
    /\ prevSegments >= 1
    /\ breakdown[best].score = 89
    /\ breakdown[PrevIdx].score = 100

C1_BoundaryWitness ==
    /\ pc = "decided"
    /\ outcome = "hold"
    /\ prevSegments >= 1
    /\ breakdown[best].score = 90
    /\ breakdown[PrevIdx].score = 100

\* C2: two consecutive decision steps never both switch, and the step that
\* starts with segments_since_switch = 0 keeps the active configuration
\* whatever the scores.
C2_MinimumDwell ==
    /\ [][(pc = "scored" /\ outcome = "switch") => outcome' # "switch"]_vars
    /\ [](pc = "decided" /\ prevSegments = 0 => ~ Switched /\ active = prevActive)

\* a switch, a held step, and a switch again on the step after
C2_Witness ==
    /\ pc = "decided"
    /\ Switched
    /\ prevSegments = 1
    /\ last_switch_time = now
    /\ now >= 4

\* the step right after a switch holds although a candidate beats the margin
C2_HeldWitness ==
    /\ pc = "decided"
    /\ prevSegments = 0
    /\ now >= 2
    /\ BeatsMargin
    /\ outcome = "hold"

\* the three rejection conditions, restated on candidate i of the step
OverCap(i) == breakdown[i].o.n * 20 > 7 * breakdown[i].o.d
BlockTooLong(i) ==
    breakdown[i].t_blk.n * 2 * BEff.d > 3 * BEff.n * breakdown[i].t_blk.d
NegativeZLowBuffer(i) ==
    /\ (2 * DerivedP(grid[i].N, grid[i].R) + 1) * signals.p.d
          < 2 * DerivedT(grid[i].N, grid[i].R) * signals.p.n
    /\ BEff.n < BEff.d

\* C3: a candidate over o_cap, with t_blk > 1.5 B_eff, or with z < 0 below
\* one second of buffer is infeasible whatever its score, and a switch only
\* ever adopts a candidate that is feasible in that step.
C3_ConstraintVeto ==
    /\ pc \in {"scored", "decided"} =>
          \A i \in Cands :
              (OverCap(i) \/ BlockTooLong(i) \/ NegativeZLowBuffer(i))
                 => ~ breakdown[i].feasible
    /\ pc = "decided" /\ active # prevActive =>
          \E i \in Cands : grid[i] = active /\ breakdown[i].feasible /\ i = best

\* an infeasible candidate has score 0, the lowest, and the step switches to
\* another one
C3_Witness ==
    /\ pc = "decided"
    /\ Switched
    /\ \E i \in Cands :
          /\ OverCap(i)
          /\ breakdown[i].score = 0
          /\ breakdown[best].score > 0

\* C4: when every candidate of the step is infeasible the step reports
\* NoFeasibleCandidate and the active configuration is the one before it.
C4_NoFeasibleCandidate ==
    (pc = "decided" /\ \A i \in Cands : ~ breakdown[i].feasible)
        => (outcome = "NoFeasibleCandidate" /\ active = prevActive /\ best = 0)

\* no candidate is feasible although one beats the margin and the dwell is met
C4_Witness ==
    /\ pc = "decided"
    /\ outcome = "NoFeasibleCandidate"
    /\ prevSegments >= 1
    /\ \E i \in Cands : breakdown[i].score * 10 < breakdown[PrevIdx].score * 9

\* t_blk <= eta * B_eff and t_blk > 2 * eta * B_eff, with eta = 1/2
WithinEta(i) == breakdown[i].t_blk.n * 2 * BEff.d <= BEff.n * breakdown[i].t_blk.d
BeyondTwiceEta(i) == breakdown[i].t_blk.n * BEff.d > BEff.n * breakdown[i].t_blk.d

\* C8: pen_blk lies in [0, 1]; it is 0 when t_blk / B_eff <= eta, and 1 when
\* B_eff = 0.
C8_PenBlkBounds ==
    pc \in {"scored", "decided"} =>
        \A i \in Cands :
            LET pen == breakdown[i].pen_blk
            IN  /\ pen.d > 0
                /\ 0 <= pen.n /\ pen.n <= pen.d
                /\ (BEff.n > 0 /\ WithinEta(i)) => pen.n = 0
                /\ BEff.n = 0 => pen = [n |-> 1, d |-> 1]

\* a positive buffer with t_blk above 2 eta B_eff: the penalty is clamped at 1
C8_Witness ==
    /\ pc = "scored"
    /\ BEff.n > 0
    /\ \E i \in Cands : BeyondTwiceEta(i) /\ breakdown[i].pen_blk = [n |-> 1, d |-> 1]

C8_ZeroBufferWitness ==
    /\ pc = "scored"
    /\ BEff.n = 0
    /\ \A i \in Cands : breakdown[i].pen_blk = [n |-> 1, d |-> 1]

C8_PartialWitness ==
    /\ pc = "scored"
    /\ \E i \in Cands : 0 < breakdown[i].pen_blk.n
                        /\ breakdown[i].pen_blk.n < breakdown[i].pen_blk.d

\* C9: a decision step either switches (active = best, segments_since_switch
\* = 0) or leaves active unchanged and adds exactly 1 to
\* segments_since_switch; segments_since_switch is the number of steps
\* completed since the most recent switch; ControllerState changes only in
\* the Selector's step.
C9_SelectorStateUpdate ==
    /\ [](pc = "decided" =>
            \/ /\ Switched
               /\ active = grid[best]
               /\ segments_since_switch = 0
               /\ last_switch_time = now
            \/ /\ ~ Switched
               /\ active = prevActive
               /\ segments_since_switch = prevSegments + 1)
    /\ [](segments_since_switch = now - last_switch_time)
    /\ [][(active' # active \/ segments_since_switch' # segments_since_switch
             \/ last_switch_time' # last_switch_time)
          => (pc = "scored" /\ pc' = "decided" /\ now' = now + 1)]_vars

\* a held step after a switch that followed a held step
C9_Witness ==
    /\ pc = "decided"
    /\ outcome = "hold"
    /\ last_switch_time >= 2
    /\ segments_since_switch = 2

\* the feasible candidates of the step and their least score
FeasibleIdx == {i \in Cands : breakdown[i].feasible}
LeastFeasibleScore(m) ==
    /\ \E i \in FeasibleIdx : breakdown[i].score = m
    /\ \A i \in FeasibleIdx : m <= breakdown[i].score
WithinTie(i) ==
    /\ i \in FeasibleIdx
    /\ \E m \in ScoreVals : LeastFeasibleScore(m) /\ breakdown[i].score - m <= epsTie

\* best is not behind j in the order lower o, larger S, larger N
OSNNotBehind(i, j) ==
    LET oi == breakdown[i].o
        oj == breakdown[j].o
    IN  \/ oi.n * oj.d < oj.n * oi.d
        \/ /\ oi = oj
           /\ \/ grid[i].S > grid[j].S
              \/ (grid[i].S = grid[j].S /\ grid[i].N >= grid[j].N)

BufferCritical == BEff.n < 3 * BEff.d

C10_PenLossWitness ==
    /\ pc = "decided"
    /\ best # 0
    /\ BufferCritical
    /\ \E j \in Cands :
          /\ WithinTie(j)
          /\ ~ PenLossLe(grid[j], grid[best], signals)
          /\ breakdown[j].o.n * breakdown[best].o.d < breakdown[best].o.n * breakdown[j].o.d

\* at or above B_crit the larger N decided between equal o and S
C10_LargerNWitness ==
    /\ pc = "decided"
    /\ best # 0
    /\ ~ BufferCritical
    /\ \E j \in Cands :
          /\ WithinTie(j)
          /\ j < best
          /\ breakdown[j].o = breakdown[best].o
          /\ grid[j].S = grid[best].S
          /\ grid[j].N < grid[best].N

----------------------------------------------------------------------------
(* Properties of the codecs, the benchmark and the estimator *)

DataSymbols == CeilDiv(Len(payload), symbolSize)

\* C5: every encoder returns N + P shards (the original payload being
\* recoverable from them after any P losses needs at least that).
C5_EncodersReturnAllShards ==
    codecOp \in {"EncodeXOR", "EncodeRS"} => Len(shards) = DataSymbols + parity

\* what EncodeXOR returns: P shards, each the XOR of all data symbols
C5_XorReturnsParityOnly ==
    codecOp = "EncodeXOR" =>
        /\ Len(shards) = parity
        /\ \A i \in 1..parity : shards[i] = shards[1]

\* C6: P is the least integer >= N R, T = N + P >= N, 0 <= o = P/T < 1,
\* B_blk = T S; N = 20, S = 512, R = 0.30 gives P = 6, T = 26, o = 3/13,
\* B_blk = 13312; the benchmark's parity count is that P on its grid.
C6_DerivedQuantities ==
    /\ (benchOut # << >> /\ benchOut.kind = "derived") =>
          /\ benchOut.P >= 0
          /\ benchOut.P * 100 >= benchIn[1] * benchIn[3]
          /\ (benchOut.P - 1) * 100 < benchIn[1] * benchIn[3]
          /\ benchOut.T = benchIn[1] + benchOut.P
          /\ benchOut.T >= benchIn[1]
          /\ benchOut.o.d > 0
          /\ 0 <= benchOut.o.n /\ benchOut.o.n < benchOut.o.d
          /\ benchOut.o.n * benchOut.T = benchOut.P * benchOut.o.d
          /\ benchOut.B_blk = benchOut.T * benchIn[2]
          /\ benchIn = <<20, 512, 30>> =>
                /\ benchOut.P = 6 /\ benchOut.T = 26
                /\ benchOut.o = [n |-> 3, d |-> 13]
                /\ benchOut.B_blk = 13312
    /\ (benchOut # << >> /\ benchOut.kind = "bench") =>
          /\ benchOut.Parity * 100 >= benchIn[1] * benchIn[3]
          /\ (benchOut.Parity - 1) * 100 < benchIn[1] * benchIn[3]
          /\ benchOut.Parity = DerivedP(benchIn[1], Rat(benchIn[3], 100))
          /\ benchOut.PayloadB = benchIn[1] * benchIn[2]

C6_Witness ==
    /\ benchIn = <<20, 512, 30>>
    /\ benchOut # << >>
    /\ benchOut.kind = "bench"
    /\ benchOut.Parity = 6

C6_DerivedWitness ==
    /\ benchIn = <<20, 512, 30>>
    /\ benchOut # << >>
    /\ benchOut.kind = "derived"
    /\ benchOut.B_blk = 13312

\* the smoothed loss after the accepted samples ls, gamma = 1/4:
\* p_k = (l_k + 3 p_(k-1)) / 4, as a pair numerator / 4^k scaled by 10
RECURSIVE Pow4(_)
Pow4(k) == IF k = 0 THEN 1 ELSE 4 * Pow4(k - 1)
RECURSIVE SmoothedTimes(_, _)
\* 10 * 4^k * p_k for the first k accepted samples
SmoothedTimes(ls, k) ==
    IF k = 0 THEN 0
    ELSE ((10 * ls[k].n) \div ls[k].d) * Pow4(k - 1) + 3 * SmoothedTimes(ls, k - 1)

\* C7: an update with rawPlaybackRate <= 0 or rawGoodput < 0 fails with
\* InvalidSample and leaves the smoothed loss as it was; the smoothed loss is
\* always the result of the accepted samples alone, in order.
C7_InvalidSample ==
    /\ [](estResult.status # "none" =>
            ((estResult.R_play <= 0 \/ estResult.G < 0)
                <=> estResult.status = "InvalidSample"))
    /\ [](p_smooth.n * 10 * Pow4(Len(validLosses))
             = SmoothedTimes(validLosses, Len(validLosses)) * p_smooth.d)
    /\ [][(nUpdates' = nUpdates + 1 /\ estResult'.status = "InvalidSample")
             => (p_smooth' = p_smooth /\ validLosses' = validLosses)]_vars

\* a rejected sample after an accepted one that moved the smoothed loss
C7_Witness ==
    /\ estResult.status = "InvalidSample"
    /\ estResult.G = 0
    /\ Len(validLosses) >= 2
    /\ Len(validLosses) < nUpdates
    /\ p_smooth.n > 0

----------------------------------------------------------------------------
(* Overhead fraction against the redundancy ratio; benchIn[3] is R in      *)
(* percent, so R / (1 + R) = benchIn[3] / (100 + benchIn[3]).              *)

RepairIsExact == (benchIn[1] * benchIn[3]) % 100 = 0

----------------------------------------------------------------------------
(* DecodeXOR on data shards followed by their XOR parity.                  *)

Decoded == codecOp = "DecodeXOR" /\ received # << >>

LostSlot == lost_indices[1] + 1

EqualSize(sh) == \A x \in DOMAIN sh : Len(sh[x]) = Len(sh[1])

OthersIntact == \A x \in DOMAIN received \ {LostSlot} : received[x] = original[x]

\* C12: on equal-size data shards followed by their XOR, DecodeXOR with
\* lostIndices = [i, ...] leaves shard i with its original content whatever
\* it held, changes no other shard (further indices are ignored), and with
\* an empty lostIndices changes nothing; the error is nil every time.
C12_DecodeXORRecovery ==
    Decoded =>
        /\ decodeErr = "nil"
        /\ Len(shards) = Len(received)
        /\ lost_indices = << >> => shards = received
        /\ lost_indices # << >> =>
              /\ \A x \in DOMAIN shards \ {LostSlot} : shards[x] = received[x]
              /\ (EqualSize(received) /\ OthersIntact)
                    => shards[LostSlot] = original[LostSlot]

\* shard 1 of three arrived with other bytes and was restored
C12_Witness ==
    /\ Decoded
    /\ Len(original) = 3
    /\ lost_indices = <<1>>
    /\ EqualSize(received)
    /\ received[2] # original[2]
    /\ shards = original
    /\ original[2] # original[1]

\* a second lost index is ignored: its shard keeps what it held on arrival
C12_SecondIndexWitness ==
    /\ Decoded
    /\ Len(lost_indices) = 2
    /\ lost_indices[2] # lost_indices[1]
    /\ received[lost_indices[2] + 1] # original[lost_indices[2] + 1]
    /\ shards[lost_indices[2] + 1] = received[lost_indices[2] + 1]

\* an empty lostIndices leaves a damaged list as it is
C12_EmptyLostWitness ==
    /\ Decoded
    /\ lost_indices = << >>
    /\ received # original
    /\ shards = received
    /\ decodeErr = "nil"

\* the parity shard itself is restored from the data shards
C12_ParityWitness ==
    /\ Decoded
    /\ lost_indices = <<Len(original) - 1>>
    /\ received # original
    /\ shards = original

====
